---- MODULE Spec2Model ----
(***************************************************************************)
(* Token-list hook of safe-payroll: fetchTokenList, useTokenList and the   *)
(* getTokenInfo closure of useTokenInfoProvider.                           *)
(*                                                                         *)
(* One mounted instance of the hook is modelled.  JavaScript Map objects   *)
(* have identity and are mutated in place, so they live in a heap indexed  *)
(* by an object id; the React state `tokenList` holds such an id.          *)
(***************************************************************************)
EXTENDS Integers, Sequences, FiniteSets, TLC

(* ---------------- bounds ---------------- *)
MaxEffects == 2      \* runs of the effect callback (first load included)
MaxCalls == 2        \* getTokenInfo invocations

(* ---------------- values ---------------- *)
\* an optional JavaScript value: undefined, or a value
NoValue == [defined |-> FALSE]
Some(v) == [defined |-> TRUE, value |-> v]

\* chain ids the host may report; 5 stands for any chain without a list
ChainIds == {1, 4, 100, 5}

Tokens == {"t1", "t2"}
Forms == {"checksum", "lower"}
\* address strings: the same contract in its checksummed or lowercase spelling
Addresses == [tok : Tokens, form : Forms]

\* utils.getAddress: the checksummed spelling of an address string
getAddress(a) == [tok |-> a.tok, form |-> "checksum"]

\* what the contract of a token answers
Decimals(tok) == IF tok = "t1" THEN 18 ELSE 6
Symbol(tok) == IF tok = "t1" THEN "TK1" ELSE "TK2"

\* a TokenInfo object of a token-list JSON, with its address as spelled there
ListToken(a) ==
  [decimals |-> Some(Decimals(a.tok)), symbol |-> Some(Symbol(a.tok)),
   address |-> a, logoURI |-> Some("logo")]

\* the token-list source of each supported chain (coingecko spells addresses
\* in lowercase, the bundled lists in checksummed form)
TokenSource(chainId) ==
  IF chainId = 1
    THEN {ListToken([tok |-> "t1", form |-> "lower"]),
          ListToken([tok |-> "t2", form |-> "lower"])}
  ELSE IF chainId = 4
    THEN {ListToken([tok |-> "t1", form |-> "checksum"])}
  ELSE IF chainId = 100
    THEN {ListToken([tok |-> "t2", form |-> "checksum"])}
  ELSE {}

\* the address strings getTokenInfo is called with
CallAddresses == {a \in Addresses : a.tok = "t1"}

EmptyMap == [a \in {} |-> NoValue]

\* Map.prototype.has / get / set
Has(m, a) == a \in DOMAIN m
Get(m, a) == IF a \in DOMAIN m THEN Some(m[a]) ELSE NoValue
Set(m, a, v) == [k \in DOMAIN m \cup {a} |-> IF k = a THEN v ELSE m[k]]

\* tokenMap(tokenList): index the tokens by checksummed address
tokenMap(tokens) ==
  [k \in {getAddress(t.address) : t \in tokens} |->
     CHOOSE t \in tokens : getAddress(t.address) = k]

\* variant: the final else branch yields an empty list instead of throwing
fetchTokenList_noThrow(chainId, netOk) ==
  IF chainId = 1
    THEN IF netOk THEN [ok |-> TRUE, map |-> tokenMap(TokenSource(1))]
                  ELSE [ok |-> FALSE]
    ELSE [ok |-> TRUE, map |-> tokenMap(TokenSource(chainId))]

\* fetchTokenList(chainId): the promise's outcome; netOk is whether the
\* network fetch of the mainnet list succeeds
fetchTokenList(chainId, netOk) ==
  IF chainId = 1
    THEN IF netOk THEN [ok |-> TRUE, map |-> tokenMap(TokenSource(1))]
                  ELSE [ok |-> FALSE]
  ELSE IF chainId = 4 THEN [ok |-> TRUE, map |-> tokenMap(TokenSource(4))]
  ELSE IF chainId = 100 THEN [ok |-> TRUE, map |-> tokenMap(TokenSource(100))]
  ELSE [ok |-> FALSE]

(* ---------------- state ---------------- *)
VARIABLES
  phase,        \* "init" (before the first effect), "mounted", "unmounted"
  chainId,      \* safe.chainId
  tokenList,    \* useState tokenList: id of a Map in the heap
  isLoading,    \* useState isLoading
  heap,         \* Map objects: id -> (address string -> token info)
  effects,      \* runs of the useEffect callback, in order
  calls,        \* getTokenInfo invocations, in order
  chainChanges, \* history: values safe.chainId has taken while mounted
  added,        \* history: entries written by getTokenInfo
  resolvedAddrs \* history: addresses some getTokenInfo resolved on chain

vars == <<phase, chainId, tokenList, isLoading, heap, effects, calls,
          chainChanges, added, resolvedAddrs>>

Init ==
  /\ phase = "init"
  /\ chainId \in ChainIds
  /\ tokenList = 0
  /\ isLoading = FALSE
  /\ heap = [m \in {0} |-> EmptyMap]
  /\ effects = <<>>
  /\ calls = <<>>
  /\ chainChanges = 0
  /\ added = {}
  /\ resolvedAddrs = {}

(* ---------------- useTokenList ---------------- *)
\* variant: no dependency array, the effect runs after every render
DepsChanged_always(prev, next) == TRUE

\* the dependency array [safe.chainId]
DepsChanged(prev, next) == prev # next

\* variant: the effect does not call setIsLoading(true)
LoadingAtStart_unset == isLoading

\* setIsLoading(true) at the start of the effect
LoadingAtStart == TRUE

\* variant: the then callback does not test isMounted
ThenGuard_none(e) == TRUE

\* if (isMounted) in the then callback
ThenGuard(e) == effects[e].isMounted

\* the cleanup callback of the last effect
Cleanup(effs) ==
  IF effs = <<>> THEN effs
  ELSE [effs EXCEPT ![Len(effs)].isMounted = FALSE]

\* the effect body: isMounted = true, setIsLoading(true), fetchTokenList(...)
RunEffect(c) ==
  /\ isLoading' = LoadingAtStart
  /\ effects' = Append(Cleanup(effects),
                  [chainId |-> c, isMounted |-> TRUE, fetch |-> "pending",
                   installs |-> 0, listAtStart |-> tokenList])

\* first render and commit
Mount ==
  /\ phase = "init"
  /\ phase' = "mounted"
  /\ RunEffect(chainId)
  /\ chainChanges' = chainChanges + 1
  /\ UNCHANGED <<chainId, tokenList, heap, calls, added, resolvedAddrs>>

\* a later render, with safe.chainId = c
Render(c) ==
  /\ phase = "mounted"
  /\ Len(effects) < MaxEffects
  /\ chainId' = c
  /\ chainChanges' = chainChanges + (IF c # chainId THEN 1 ELSE 0)
  /\ IF DepsChanged(chainId, c)
       THEN RunEffect(c)
       ELSE UNCHANGED <<isLoading, effects>>
  /\ UNCHANGED <<phase, tokenList, heap, calls, added, resolvedAddrs>>

Unmount ==
  /\ phase = "mounted"
  /\ phase' = "unmounted"
  /\ effects' = Cleanup(effects)
  /\ UNCHANGED <<chainId, tokenList, isLoading, heap, calls,
                 chainChanges, added, resolvedAddrs>>

\* the promise of effect e fulfils and its then callback runs
FetchResolved(e, netOk) ==
  /\ e \in DOMAIN effects
  /\ effects[e].fetch = "pending"
  /\ LET r == fetchTokenList(effects[e].chainId, netOk) IN
     /\ r.ok
     /\ IF ThenGuard(e)
          THEN /\ effects' = [effects EXCEPT ![e].fetch = "resolved",
                                             ![e].installs = @ + 1]
               /\ heap' = [m \in DOMAIN heap \cup {e} |->
                             IF m = e THEN r.map ELSE heap[m]]
               /\ tokenList' = e
               /\ isLoading' = FALSE
          ELSE /\ effects' = [effects EXCEPT ![e].fetch = "resolved"]
               /\ UNCHANGED <<heap, tokenList, isLoading>>
  /\ UNCHANGED <<phase, chainId, calls, chainChanges, added,
                 resolvedAddrs>>

\* the promise of effect e rejects; no rejection handler is attached
FetchRejected(e, netOk) ==
  /\ e \in DOMAIN effects
  /\ effects[e].fetch = "pending"
  /\ ~fetchTokenList(effects[e].chainId, netOk).ok
  /\ effects' = [effects EXCEPT ![e].fetch = "rejected"]
  /\ UNCHANGED <<phase, chainId, tokenList, isLoading, heap, calls,
                 chainChanges, added, resolvedAddrs>>

(* ---------------- useTokenInfoProvider ---------------- *)
\* variant: the entry is cached whatever decimals() gave
ShouldCache_always(decimals, symbol) == TRUE

\* variant: the entry is cached only when symbol() succeeded too
ShouldCache_both(decimals, symbol) == decimals.defined /\ symbol.defined

\* typeof decimals !== "undefined"
ShouldCache(decimals, symbol) == decimals.defined

\* variant: the lookup in the map is skipped
Listed_never(m, a) == FALSE

\* tokenList?.has(tokenAddress)
Listed(m, a) == Has(m, a)

\* the key getTokenInfo stores a resolved token under
CacheKey(a) == a

\* the object getTokenInfo caches and returns
Resolved(a, decimals, symbol) ==
  [decimals |-> decimals, symbol |-> symbol, address |-> a, logoURI |-> NoValue]

\* is the token of address a in the list of chain c
InListOf(c, a) == \E t \in TokenSource(c) : getAddress(t.address) = getAddress(a)

\* getTokenInfo(a) up to its first await
CallGetTokenInfo(a) ==
  /\ phase = "mounted"
  /\ Len(calls) < MaxCalls
  /\ LET m == tokenList
         base == [addr |-> a, map |-> m, decimals |-> NoValue,
                  symbol |-> NoValue,
                  chainAtStart |-> chainId,
                  listedAtStart |-> InListOf(chainId, a),
                  cachedAtStart |-> (\E x \in added : x.map = m /\ x.addr = a),
                  resolvedBefore |-> a \in resolvedAddrs]
     IN IF Listed(heap[m], a)
          THEN calls' = Append(calls,
                 base @@ [pc |-> "done", queried |-> FALSE,
                          result |-> Get(heap[m], a)])
          ELSE calls' = Append(calls,
                 base @@ [pc |-> "decimals", queried |-> TRUE,
                          result |-> NoValue])
  /\ UNCHANGED <<phase, chainId, tokenList, isLoading, heap, effects,
                 chainChanges, added, resolvedAddrs>>

\* tokenContract.decimals() settles (ok) or fails and is caught
DecimalsSettled(i, ok) ==
  /\ i \in DOMAIN calls
  /\ calls[i].pc = "decimals"
  /\ calls' = [calls EXCEPT
       ![i].pc = "symbol",
       ![i].decimals = IF ok THEN Some(Decimals(calls[i].addr.tok)) ELSE NoValue]
  /\ UNCHANGED <<phase, chainId, tokenList, isLoading, heap, effects,
                 chainChanges, added, resolvedAddrs>>

\* tokenContract.symbol() settles or fails, then the rest of getTokenInfo
SymbolSettled(i, ok) ==
  /\ i \in DOMAIN calls
  /\ calls[i].pc = "symbol"
  /\ LET c == calls[i]
         symbol == IF ok THEN Some(Symbol(c.addr.tok)) ELSE NoValue
         info == Resolved(c.addr, c.decimals, symbol)
     IN IF ShouldCache(c.decimals, symbol)
          THEN /\ heap' = [heap EXCEPT ![c.map] = Set(@, CacheKey(c.addr), info)]
               /\ calls' = [calls EXCEPT ![i].pc = "done", ![i].symbol = symbol,
                                         ![i].result = Some(info)]
               /\ added' = added \cup
                    {[call |-> i, map |-> c.map, addr |-> CacheKey(c.addr),
                      info |-> info]}
               /\ resolvedAddrs' = resolvedAddrs \cup {c.addr}
          ELSE /\ calls' = [calls EXCEPT ![i].pc = "done", ![i].symbol = symbol,
                                         ![i].result = NoValue]
               /\ UNCHANGED <<heap, added, resolvedAddrs>>
  /\ UNCHANGED <<phase, chainId, tokenList, isLoading, effects,
                 chainChanges>>

Next ==
  \/ Mount
  \/ \E c \in ChainIds : Render(c)
  \/ Unmount
  \/ \E e \in DOMAIN effects, netOk \in BOOLEAN : FetchResolved(e, netOk)
  \/ \E e \in DOMAIN effects, netOk \in BOOLEAN : FetchRejected(e, netOk)
  \/ \E a \in CallAddresses : CallGetTokenInfo(a)
  \/ \E i \in DOMAIN calls, ok \in BOOLEAN : DecimalsSettled(i, ok)
  \/ \E i \in DOMAIN calls, ok \in BOOLEAN : SymbolSettled(i, ok)

Spec == Init /\ [][Next]_vars

(* ---------------- properties ---------------- *)
Supported == {1, 4, 100}
Latest == Len(effects)

\* C1: fetchTokenList resolves with a token map only for chainId 1, 4 or 100;
\* for every other chainId it rejects and no token map comes out of it.
FetchOnlySupported ==
  /\ \A c \in ChainIds, netOk \in BOOLEAN :
       /\ fetchTokenList(c, netOk).ok => c \in Supported
       /\ c \notin Supported => DOMAIN fetchTokenList(c, netOk) = {"ok"}
  /\ \A e \in DOMAIN effects :
       /\ effects[e].fetch = "resolved" => effects[e].chainId \in Supported
       /\ effects[e].fetch = "rejected" => e \notin DOMAIN heap
       /\ (effects[e].chainId \notin Supported /\ effects[e].fetch # "pending")
            => effects[e].fetch = "rejected"

\* a load of an unsupported chain was rejected and a load of a supported one
\* resolved
FetchOnlySupported_Witness ==
  /\ \E e \in DOMAIN effects :
       effects[e].chainId \notin Supported /\ effects[e].fetch = "rejected"
  /\ \E e \in DOMAIN effects :
       effects[e].chainId \in Supported /\ effects[e].fetch = "resolved"

\* C2 (as stated): once getTokenInfo has resolved an address through the
\* contract, no later getTokenInfo call for that address queries the contract,
\* whatever happened in between.
ResolvedOnceNeverQueriedAgain ==
  \A i \in DOMAIN calls : calls[i].resolvedBefore => ~calls[i].queried

\* C2 (amended): a getTokenInfo call for an address that getTokenInfo has
\* cached in the Map object that is tokenList when the call starts returns that
\* cached metadata without querying the contract.
CachedInCurrentListNotQueried ==
  \A i \in DOMAIN calls :
    calls[i].cachedAtStart =>
      /\ ~calls[i].queried
      /\ calls[i].pc = "done"
      /\ \E x \in added :
           /\ x.map = calls[i].map
           /\ x.addr = calls[i].addr
           /\ calls[i].result = Some(x.info)

\* a call was answered from an entry an earlier call had cached
CachedInCurrentListNotQueried_Witness ==
  \E i \in DOMAIN calls : calls[i].cachedAtStart /\ calls[i].pc = "done"

\* C3: every key of every TokenMap is a checksummed address.
KeysChecksummed ==
  \A m \in DOMAIN heap : \A k \in DOMAIN heap[m] : getAddress(k) = k

\* C4: a getTokenInfo call for a token that is in the list of the current
\* network returns the list entry and makes no contract call, whatever the
\* spelling of the address and whenever the call is made.
ListedNeverQueried ==
  \A i \in DOMAIN calls :
    calls[i].listedAtStart =>
      /\ ~calls[i].queried
      /\ calls[i].result.defined
      /\ calls[i].result.value \in TokenSource(calls[i].chainAtStart)

\* C5: every entry getTokenInfo added to a TokenMap has a defined decimals
\* value, and a call whose decimals call failed added none.
AddedHaveDecimals ==
  /\ \A x \in added :
       /\ x.info.decimals.defined
       /\ x.addr \in DOMAIN heap[x.map]
       /\ heap[x.map][x.addr].decimals.defined
  /\ \A i \in DOMAIN calls :
       (calls[i].pc = "done" /\ calls[i].queried /\ ~calls[i].decimals.defined)
         => ~\E x \in added : x.call = i

\* getTokenInfo cached an entry, and another call's decimals call failed
AddedHaveDecimals_Witness ==
  /\ added # {}
  /\ \E i \in DOMAIN calls :
       calls[i].pc = "done" /\ calls[i].queried /\ ~calls[i].decimals.defined

StaleFetchIgnored ==
  [][/\ \A e \in DOMAIN effects :
          (/\ effects[e].fetch = "pending"
           /\ effects'[e].fetch # "pending"
           /\ ~effects[e].isMounted)
            => tokenList' = tokenList /\ isLoading' = isLoading /\ heap' = heap
     /\ (tokenList' # tokenList \/ (isLoading /\ ~isLoading')) =>
          /\ phase = "mounted"
          /\ tokenList' = Latest
          /\ effects[Latest].chainId = chainId
          /\ effects[Latest].fetch = "pending"
          /\ effects'[Latest].fetch = "resolved"
          /\ heap'[tokenList'] = tokenMap(TokenSource(chainId))]_vars

\* the chain changed while a fetch was pending, and that fetch then resolved
\* without being installed
StaleFetchIgnored_Witness ==
  /\ phase = "mounted"
  /\ \E e \in DOMAIN effects :
       /\ e < Latest
       /\ effects[e].fetch = "resolved"
       /\ effects[e].installs = 0

\* C9: for an address absent from the map the outcome of getTokenInfo depends
\* on the decimals call alone: without decimals it returns undefined and leaves
\* the map as it is; with decimals it returns {decimals, symbol, address} and
\* stores it under the requested address, the symbol being undefined when the
\* symbol call failed.
OutcomeDependsOnDecimals ==
  [][\A i \in DOMAIN calls :
       (calls[i].pc = "symbol" /\ calls'[i].pc = "done") =>
         IF calls[i].decimals.defined
           THEN LET info == calls'[i].result.value IN
                /\ calls'[i].result.defined
                /\ info.decimals = calls[i].decimals
                /\ info.symbol = calls'[i].symbol
                /\ info.address = calls[i].addr
                /\ calls[i].addr \in DOMAIN heap'[calls[i].map]
                /\ heap'[calls[i].map][calls[i].addr] = info
                /\ \A m \in DOMAIN heap : \A k \in DOMAIN heap[m] :
                     (m # calls[i].map \/ k # calls[i].addr)
                       => k \in DOMAIN heap'[m] /\ heap'[m][k] = heap[m][k]
           ELSE calls'[i].result = NoValue /\ heap' = heap]_vars

\* one call returned a token whose symbol call failed, another returned
\* undefined although its symbol call succeeded
OutcomeDependsOnDecimals_Witness ==
  /\ \E i \in DOMAIN calls :
       /\ calls[i].pc = "done" /\ calls[i].queried
       /\ calls[i].decimals.defined /\ ~calls[i].symbol.defined
       /\ calls[i].result.defined
  /\ \E i \in DOMAIN calls :
       /\ calls[i].pc = "done" /\ calls[i].queried
       /\ ~calls[i].decimals.defined /\ calls[i].symbol.defined
       /\ ~calls[i].result.defined

\* C10: when the fetch of the latest load rejects, tokenList keeps the value it
\* had when the load started and isLoading stays true; isLoading is false only
\* when the latest load has resolved.
RejectedLoadKeepsLoading ==
  /\ \A e \in DOMAIN effects :
       (e = Latest /\ effects[e].fetch = "rejected")
         => isLoading /\ tokenList = effects[e].listAtStart
  /\ (phase # "init" /\ ~isLoading) => effects[Latest].fetch = "resolved"

\* a load was installed, the chain changed and the new load was rejected
RejectedLoadKeepsLoading_Witness ==
  /\ Latest >= 2
  /\ effects[Latest].fetch = "rejected"
  /\ tokenList # 0
  /\ isLoading
====
